---- MODULE Spec2Model ----
(***************************************************************************)
(* Model of src/response.rs: the generic query envelope Response<T> with   *)
(* its two constructors ok and err, its derived Clone and PartialEq, its   *)
(* public fields, and its structured-record encoding.                      *)
(*                                                                         *)
(* Option<X> is a sequence of length at most one: None is << >> and        *)
(* Some(x) is << x >>.  A u32 is a pair of 16-bit limbs [hi, lo], so that  *)
(* the whole range 0 .. 2^32-1 is representable.  A payload of type T is a *)
(* record [ty, n, s]: its type, its scalar part and its sequence part.     *)
(***************************************************************************)
EXTENDS Integers, Sequences, FiniteSets, TLC

\* Number of Response bindings a client holds at once.
NumSlots == 2
\* Number of direct assignments to public fields explored along one run.
MaxWrites == 1
\* Largest value of one 16-bit limb of a u32.
LimbMax == 65535

Slots == 1 .. NumSlots

None == << >>
Some(x) == << x >>
IsSome(o) == Len(o) = 1
IsNone(o) == Len(o) = 0

U32(hi, lo) == [hi |-> hi, lo |-> lo]
U32Zero == U32(0, 0)
U32Max == U32(LimbMax, LimbMax)
\* Error codes explored: 0, 404, 65536 and 2^32-1.
Codes == { U32Zero, U32(0, 404), U32(1, 0), U32Max }

Payload(ty, n, s) == [ty |-> ty, n |-> n, s |-> s]
EmptyString == Payload("str", 0, << >>)
Vec123 == Payload("vec", 0, << 1, 2, 3 >>)
NestedRecord == Payload("rec", 7, << 2, 1 >>)
\* Values of T explored: 0u64, 42u64, false, "", vec![], vec![1,2,3] and a
\* nested record.
Payloads ==
    { Payload("u64", 0, << >>), Payload("u64", 42, << >>),
      Payload("bool", 0, << >>), EmptyString, Payload("vec", 0, << >>),
      Vec123, NestedRecord }
Falsy == { p \in Payloads : p.n = 0 /\ p.s = << >> }

VARIABLES store, chan, cmp, writes

vars == << store, chan, cmp, writes >>

(***************************************************************************)
(* Response<T> and its constructors.                                       *)
(***************************************************************************)
Response(success, data, error) ==
    [success |-> success, data |-> data, error |-> error]

\* ok with a stray error code: both optionals populated.
ok_with_code(data) == Response(TRUE, Some(data), Some(U32Zero))

\* ok with the flag of the err arm.
ok_flag_false(data) == Response(FALSE, Some(data), None)

\* ok that coalesces an empty or zero payload to None.
ok_coalescing(data) ==
    Response(TRUE, IF data.n = 0 /\ data.s = << >> THEN None ELSE Some(data), None)

ok(data) == Response(TRUE, Some(data), None)

\* err that narrows the code to 16 bits.
err_truncating(error_code) ==
    Response(FALSE, None, Some(U32(0, error_code.lo)))

\* err that treats code 0 as "no error".
err_zero_is_none(error_code) ==
    Response(FALSE, None, IF error_code = U32Zero THEN None ELSE Some(error_code))

err(error_code) == Response(FALSE, None, Some(error_code))

(***************************************************************************)
(* #[derive(PartialEq)]: Option<X> compares by variant and then by         *)
(* content; a struct compares field by field.                              *)
(***************************************************************************)
OptionEq(a, b) ==
    \/ IsNone(a) /\ IsNone(b)
    \/ IsSome(a) /\ IsSome(b) /\ a[1] = b[1]

\* Equality that leaves the error field out.
ResponseEqNoError(a, b) ==
    a.success = b.success /\ OptionEq(a.data, b.data)

ResponseEq(a, b) ==
    /\ a.success = b.success
    /\ OptionEq(a.data, b.data)
    /\ OptionEq(a.error, b.error)

(***************************************************************************)
(* #[contracttype]: the structured record with the three named fields      *)
(* success, data and error.  A payload is written as a flat word sequence  *)
(* << type code, scalar, length >> \o elements, a u32 as its two limbs,    *)
(* and an optional as a presence flag with the encoded value.              *)
(***************************************************************************)
TyCode(ty) ==
    CASE ty = "u64" -> 1
      [] ty = "bool" -> 2
      [] ty = "str" -> 3
      [] ty = "vec" -> 4
      [] ty = "rec" -> 5

TyName(c) ==
    CASE c = 1 -> "u64"
      [] c = 2 -> "bool"
      [] c = 3 -> "str"
      [] c = 4 -> "vec"
      [] c = 5 -> "rec"

EncPayload(p) == << TyCode(p.ty), p.n, Len(p.s) >> \o p.s

DecPayload(w) ==
    Payload(TyName(w[1]), w[2], SubSeq(w, 4, 3 + w[3]))

EncCode(c) == << c.hi, c.lo >>

DecCode(w) == U32(w[1], w[2])

Absent == [present |-> FALSE, value |-> << >>]
Present(w) == [present |-> TRUE, value |-> w]

\* Encoding that writes an absent optional as a present default value.
EncodeNullAsDefault(r) ==
    [success |-> IF r.success THEN 1 ELSE 0,
     data |-> IF IsSome(r.data) THEN Present(EncPayload(r.data[1]))
              ELSE Present(EncPayload(Payload("u64", 0, << >>))),
     error |-> IF IsSome(r.error) THEN Present(EncCode(r.error[1]))
               ELSE Present(EncCode(U32Zero))]

Encode(r) ==
    [success |-> IF r.success THEN 1 ELSE 0,
     data |-> IF IsSome(r.data) THEN Present(EncPayload(r.data[1])) ELSE Absent,
     error |-> IF IsSome(r.error) THEN Present(EncCode(r.error[1])) ELSE Absent]

Decode(m) ==
    Response(m.success = 1,
             IF m.data.present THEN Some(DecPayload(m.data.value)) ELSE None,
             IF m.error.present THEN Some(DecCode(m.error.value)) ELSE None)

(***************************************************************************)
(* State.  store[i] is the i-th Response binding of the client, None when  *)
(* the binding is not live.  Besides the value val a binding records how   *)
(* the value came about: by is the constructor that made it ("written"     *)
(* once a field has been assigned) and arg and code are the constructor's  *)
(* argument.  chan is the record in flight: the binding that was encoded,  *)
(* its encoded form rec and, once decoded, the decoded value out.  cmp     *)
(* holds the operands and the result of a comparison until the client's    *)
(* next operation, and writes counts the field assignments made so far.    *)
(***************************************************************************)
Binding(val, by, arg, code) ==
    [val |-> val, by |-> by, arg |-> arg, code |-> code]

Live(i) == store[i] # None
Val(i) == store[i][1].val
By(i) == store[i][1].by

Init ==
    /\ store = [i \in Slots |-> None]
    /\ chan = None
    /\ cmp = None
    /\ writes = 0

\* ok that also clears the error of every other live envelope, as a
\* constructor sharing state between calls would.
CallOkShared(i, v) ==
    /\ ~Live(i)
    /\ store' = [j \in Slots |->
                   IF j = i THEN Some(Binding(ok(v), "ok", Some(v), None))
                   ELSE IF Live(j) THEN Some([store[j][1] EXCEPT !.val.error = None])
                   ELSE None]
    /\ cmp' = None
    /\ UNCHANGED << chan, writes >>

\* let r = Response::ok(v);
CallOk(i, v) ==
    /\ ~Live(i)
    /\ store' = [store EXCEPT ![i] = Some(Binding(ok(v), "ok", Some(v), None))]
    /\ cmp' = None
    /\ UNCHANGED << chan, writes >>

\* err that rejects a code above 16 bits instead of returning.
CallErrChecked(i, c) ==
    /\ ~Live(i)
    /\ c.hi = 0
    /\ store' = [store EXCEPT ![i] = Some(Binding(err(c), "err", None, Some(c)))]
    /\ cmp' = None
    /\ UNCHANGED << chan, writes >>

\* err that overwrites an envelope in place instead of building a new one.
CallErrInPlace(i, c) ==
    /\ store' = [store EXCEPT ![i] = Some(Binding(err(c), "err", None, Some(c)))]
    /\ cmp' = None
    /\ UNCHANGED << chan, writes >>

\* let r = Response::err(c);
CallErr(i, c) ==
    /\ ~Live(i)
    /\ store' = [store EXCEPT ![i] = Some(Binding(err(c), "err", None, Some(c)))]
    /\ cmp' = None
    /\ UNCHANGED << chan, writes >>

\* let s = r.clone();
Clone(i, j) ==
    /\ Live(i)
    /\ ~Live(j)
    /\ store' = [store EXCEPT ![j] = store[i]]
    /\ cmp' = None
    /\ UNCHANGED << chan, writes >>

\* r goes out of scope.
Drop(i) ==
    /\ Live(i)
    /\ store' = [store EXCEPT ![i] = None]
    /\ cmp' = None
    /\ UNCHANGED << chan, writes >>

\* r == s
Compare(i, j) ==
    /\ Live(i)
    /\ Live(j)
    /\ cmp' = Some([l |-> store[i][1], r |-> store[j][1],
                    res |-> ResponseEq(Val(i), Val(j))])
    /\ UNCHANGED << store, chan, writes >>

\* The envelope of binding i is encoded and sent.
EncodeCall(i) ==
    /\ Live(i)
    /\ chan' = Some([of |-> store[i][1], rec |-> Encode(Val(i)), out |-> None])
    /\ cmp' = None
    /\ UNCHANGED << store, writes >>

\* The record in flight is decoded by its receiver.
DecodeCall ==
    /\ chan # None
    /\ chan[1].out = None
    /\ chan' = Some([chan[1] EXCEPT !.out = Some(Decode(chan[1].rec))])
    /\ cmp' = None
    /\ UNCHANGED << store, writes >>

Written(val) == Some(Binding(val, "written", None, None))

\* r.success = b;
SetSuccess(i, b) ==
    /\ Live(i)
    /\ writes < MaxWrites
    /\ store' = [store EXCEPT ![i] = Written([Val(i) EXCEPT !.success = b])]
    /\ writes' = writes + 1
    /\ UNCHANGED << chan, cmp >>

\* r.data = d;
SetData(i, d) ==
    /\ Live(i)
    /\ writes < MaxWrites
    /\ store' = [store EXCEPT ![i] = Written([Val(i) EXCEPT !.data = d])]
    /\ writes' = writes + 1
    /\ UNCHANGED << chan, cmp >>

\* r.error = e;
SetError(i, e) ==
    /\ Live(i)
    /\ writes < MaxWrites
    /\ store' = [store EXCEPT ![i] = Written([Val(i) EXCEPT !.error = e])]
    /\ writes' = writes + 1
    /\ UNCHANGED << chan, cmp >>

OptPayloads == { None } \cup { Some(v) : v \in Payloads }
OptCodes == { None } \cup { Some(c) : c \in Codes }

\* The operations of Response<T>: its constructors, its derived Clone and
\* PartialEq, scope exit, and its encoding.
Next ==
    \/ \E i \in Slots, v \in Payloads : CallOk(i, v)
    \/ \E i \in Slots, c \in Codes : CallErr(i, c)
    \/ \E i \in Slots, j \in Slots : Clone(i, j)
    \/ \E i \in Slots : Drop(i)
    \/ \E i \in Slots, j \in Slots : i < j /\ Compare(i, j)
    \/ \E i \in Slots : EncodeCall(i)
    \/ DecodeCall

Spec == Init /\ [][Next]_vars

\* A client that also assigns the public fields of the envelopes it holds.
NextClient ==
    \/ \E i \in Slots, v \in Payloads : CallOk(i, v)
    \/ \E i \in Slots, c \in Codes : CallErr(i, c)
    \/ \E i \in Slots, j \in Slots : Clone(i, j)
    \/ \E i \in Slots : Drop(i)
    \/ \E i \in Slots, b \in BOOLEAN : SetSuccess(i, b)
    \/ \E i \in Slots, d \in OptPayloads : SetData(i, d)
    \/ \E i \in Slots, e \in OptCodes : SetError(i, e)

SpecClient == Init /\ [][NextClient]_vars

(***************************************************************************)
(* Properties.                                                             *)
(***************************************************************************)
Exclusive(r) == IsSome(r.data) # IsSome(r.error)
Constructed(i) == Live(i) /\ By(i) \in { "ok", "err" }

\* C1: for every payload v, Response::ok(v) is the envelope with
\* success = true, data = Some(v) holding v unchanged, and error = None.
C1_OkEnvelope ==
    \A i \in Slots :
        Live(i) /\ By(i) = "ok" =>
            /\ Val(i).success = TRUE
            /\ Val(i).data = Some(store[i][1].arg[1])
            /\ Val(i).error = None

C1_Witness ==
    \E i \in Slots :
        Live(i) /\ By(i) = "ok" /\ store[i][1].arg = Some(Vec123)

\* C2: for every u32 code c, 0 and 2^32-1 included, Response::err(c) is the
\* envelope with success = false, data = None and error = Some(c), the code
\* passed through verbatim.
C2_ErrEnvelope ==
    \A i \in Slots :
        Live(i) /\ By(i) = "err" =>
            /\ Val(i).success = FALSE
            /\ Val(i).data = None
            /\ Val(i).error = Some(store[i][1].code[1])
            /\ Val(i).error[1].hi = store[i][1].code[1].hi
            /\ Val(i).error[1].lo = store[i][1].code[1].lo

C2_Witness ==
    \E i \in Slots, j \in Slots :
        /\ Live(i) /\ By(i) = "err" /\ store[i][1].code = Some(U32Max)
        /\ Live(j) /\ By(j) = "err" /\ store[j][1].code = Some(U32Zero)

\* C3: every envelope produced by ok or err has exactly one of data and
\* error present: never both, never neither.
C3_MutuallyExclusive ==
    \A i \in Slots :
        Constructed(i) =>
            /\ Exclusive(Val(i))
            /\ ~(IsSome(Val(i).data) /\ IsSome(Val(i).error))
            /\ ~(IsNone(Val(i).data) /\ IsNone(Val(i).error))

C3_Witness ==
    \E i \in Slots, j \in Slots :
        /\ Live(i) /\ By(i) = "ok"
        /\ Live(j) /\ By(j) = "err" /\ store[j][1].code = Some(U32Zero)

\* C4: in every envelope produced by ok or err, data is present iff success
\* is true and error is present iff success is false.
C4_FlagAgrees ==
    \A i \in Slots :
        Constructed(i) =>
            /\ IsSome(Val(i).data) <=> Val(i).success
            /\ IsSome(Val(i).error) <=> ~Val(i).success

C4_Witness ==
    \E i \in Slots, j \in Slots :
        /\ Live(i) /\ By(i) = "ok" /\ Val(i).success
        /\ Live(j) /\ By(j) = "err" /\ ~Val(j).success

\* C5 as stated: the exactly-one-of-data-and-error invariant holds for every
\* Response value a client holds, at any time.
C5_AlwaysExclusive ==
    \A i \in Slots : Live(i) => Exclusive(Val(i))

\* C5 amended: ok and err build a new envelope and leave every existing one
\* alone, so the fields of an existing envelope change only by a direct
\* assignment to one of its public fields, and the invariant holds for every
\* envelope no field of which has been assigned since ok or err returned it.
C5_ChangedOnlyByFieldWrite ==
    /\ [](\A i \in Slots : Constructed(i) => Exclusive(Val(i)))
    /\ [][\A i \in Slots :
            Live(i) /\ store'[i] # None /\ store'[i][1].val # Val(i) =>
                store'[i][1].by = "written" /\ writes' = writes + 1]_vars

C5_Witness ==
    \E i \in Slots :
        /\ Live(i) /\ By(i) = "written"
        /\ IsNone(Val(i).data) /\ IsNone(Val(i).error)

\* C6: == on envelopes is field-by-field equality, so ok(v) == ok(w) exactly
\* when v == w, err(c) == err(d) exactly when c == d, and ok(v) != err(c).
C6_StructuralEquality ==
    cmp # None =>
        LET l == cmp[1].l
            r == cmp[1].r
            res == cmp[1].res
        IN  /\ res <=> /\ l.val.success = r.val.success
                       /\ l.val.data = r.val.data
                       /\ l.val.error = r.val.error
            /\ l.by = "ok" /\ r.by = "ok" => (res <=> l.arg[1] = r.arg[1])
            /\ l.by = "err" /\ r.by = "err" => (res <=> l.code[1] = r.code[1])
            /\ l.by # r.by => ~res

C6_Witness ==
    /\ cmp # None
    /\ cmp[1].l.by = "err" /\ cmp[1].r.by = "err"
    /\ cmp[1].l.code # cmp[1].r.code
    /\ ~cmp[1].res

\* C7: an envelope produced by ok or err, encoded to its record and decoded
\* back, equals the original; absent stays absent, present stays present
\* with the same value, a sequence keeping its order.
C7_RoundTrip ==
    chan # None /\ chan[1].out # None /\ chan[1].of.by \in { "ok", "err" } =>
        LET orig == chan[1].of
            back == chan[1].out[1]
        IN  /\ ResponseEq(back, orig.val)
            /\ IsSome(back.data) <=> IsSome(orig.val.data)
            /\ IsSome(back.error) <=> IsSome(orig.val.error)
            /\ orig.by = "ok" => back.data = orig.arg
            /\ orig.by = "err" => back.error = orig.code

C7_Witness ==
    /\ chan # None
    /\ chan[1].of.arg = Some(Vec123)
    /\ chan[1].out # None
    /\ chan[1].out[1].data[1].s = << 1, 2, 3 >>

\* C8: both constructors are total: whatever the argument, the call can be
\* made and returns an envelope.
C8_Total ==
    \A i \in Slots :
        /\ ~Live(i) =>
            /\ \A v \in Payloads : ENABLED CallOk(i, v)
            /\ \A c \in Codes : ENABLED CallErr(i, c)
        /\ Constructed(i) => Val(i) \in { ok(v) : v \in Payloads } \cup { err(c) : c \in Codes }

C8_Witness ==
    \E i \in Slots, j \in Slots :
        /\ Live(i) /\ By(i) = "err" /\ store[i][1].code = Some(U32Max)
        /\ ~Live(j)

\* C9: ok of an empty or zero payload still has data present holding that
\* payload, and err(0) has error present holding 0.
C9_NoCoalescing ==
    \A i \in Slots :
        /\ Live(i) /\ By(i) = "ok" /\ store[i][1].arg[1] \in Falsy =>
            /\ IsSome(Val(i).data)
            /\ Val(i).data[1] = store[i][1].arg[1]
            /\ Val(i).success
        /\ Live(i) /\ By(i) = "err" /\ store[i][1].code = Some(U32Zero) =>
            /\ IsSome(Val(i).error)
            /\ Val(i).error[1] = U32Zero
            /\ ~Val(i).success

C9_Witness ==
    \E i \in Slots, j \in Slots :
        /\ Live(i) /\ By(i) = "ok" /\ store[i][1].arg = Some(EmptyString)
        /\ Live(j) /\ By(j) = "err" /\ store[j][1].code = Some(U32Zero)

\* C10: a construction touches nothing but the envelope it returns: the step
\* that fills a binding leaves every other binding and the record in flight
\* as they were, and the envelope it returns equals every other envelope
\* built by the same constructor from the same argument.
C10_Independent ==
    [][\A i \in Slots :
         ~Live(i) /\ store'[i] # None =>
             /\ \A j \in Slots \ { i } : store'[j] = store[j]
             /\ chan' = chan
             /\ writes' = writes
             /\ \A j \in Slots \ { i } :
                    /\ store'[j] # None
                    /\ store'[j][1].by = store'[i][1].by
                    /\ store'[j][1].arg = store'[i][1].arg
                    /\ store'[j][1].code = store'[i][1].code
                    => store'[j][1].val = store'[i][1].val]_vars

C10_Witness ==
    \E i \in Slots, j \in Slots :
        /\ i # j
        /\ Live(i) /\ Live(j)
        /\ By(i) = "ok" /\ By(j) = "ok"
        /\ store[i][1].arg = store[j][1].arg

====
